---- MODULE Spec2Model ----
(***************************************************************************)
(* Model of the Unihan extraction pipeline: generate.py (stroke-ordered    *)
(* simplified / traditional character lists through an SQLite table) and   *)
(* generate_dict.py (character -> {pinyin, meaning} dictionary).           *)
(*                                                                         *)
(* A Python str is a sequence of code points (naturals).  A dict keyed by  *)
(* one-character strings is a function whose domain is a set of code       *)
(* points; the key c read back as a str is <<c>>.  None is <<>> and a      *)
(* present integer n is <<n>>.                                             *)
(***************************************************************************)
EXTENDS Integers, Sequences, FiniteSets, TLC

\* Largest number of lines the input directory holds, over all its files.
MaxLines == 3

(***************************************************************************)
(* Python str primitives                                                   *)
(***************************************************************************)

\* Code points of the characters the inputs are written with.
Ord == [c \in {"\t", "\f", " ", "#", "+", ",", "-", ".", ":", "_"} |->
          CASE c = "\t" -> 9  [] c = "\f" -> 12 [] c = " " -> 32
            [] c = "#" -> 35  [] c = "+" -> 43  [] c = "," -> 44
            [] c = "-" -> 45  [] c = "." -> 46  [] c = ":" -> 58
            [] c = "_" -> 95]
       @@ [c \in {"0","1","2","3","4","5","6","7","8","9"} |->
          CASE c = "0" -> 48 [] c = "1" -> 49 [] c = "2" -> 50 [] c = "3" -> 51
            [] c = "4" -> 52 [] c = "5" -> 53 [] c = "6" -> 54 [] c = "7" -> 55
            [] c = "8" -> 56 [] c = "9" -> 57]
       @@ [c \in {"A","B","C","D","E","F","H","M","P","S","T","U","V","X","Z"} |->
          CASE c = "A" -> 65 [] c = "B" -> 66 [] c = "C" -> 67 [] c = "D" -> 68
            [] c = "E" -> 69 [] c = "F" -> 70 [] c = "H" -> 72 [] c = "M" -> 77
            [] c = "P" -> 80 [] c = "S" -> 83 [] c = "T" -> 84 [] c = "U" -> 85
            [] c = "V" -> 86 [] c = "X" -> 88 [] c = "Z" -> 90]
       @@ [c \in {"a","b","c","d","e","f","g","h","i","k","l","m","n","o",
                  "p","r","s","t","u","v","w","x","y","z"} |->
          CASE c = "a" -> 97  [] c = "b" -> 98  [] c = "c" -> 99  [] c = "d" -> 100
            [] c = "e" -> 101 [] c = "f" -> 102 [] c = "g" -> 103 [] c = "h" -> 104
            [] c = "i" -> 105 [] c = "k" -> 107 [] c = "l" -> 108 [] c = "m" -> 109
            [] c = "n" -> 110 [] c = "o" -> 111 [] c = "p" -> 112 [] c = "r" -> 114
            [] c = "s" -> 115 [] c = "t" -> 116 [] c = "u" -> 117 [] c = "v" -> 118
            [] c = "w" -> 119 [] c = "x" -> 120 [] c = "y" -> 121 [] c = "z" -> 122]

\* The str spelled by a tuple of one-character literals.
S(t) == [i \in 1..Len(t) |-> Ord[t[i]]]

\* Characters for which str.isspace() holds: what strip() and split() remove.
Whitespace == {9, 10, 11, 12, 13, 28, 29, 30, 31, 32, 133, 160, 5760,
               8232, 8233, 8239, 8287, 12288} \cup (8192..8202)

RECURSIVE LStrip(_)
LStrip(s) == IF s # <<>> /\ Head(s) \in Whitespace THEN LStrip(Tail(s)) ELSE s

RECURSIVE RStrip(_)
RStrip(s) == IF s # <<>> /\ s[Len(s)] \in Whitespace
             THEN RStrip(SubSeq(s, 1, Len(s) - 1)) ELSE s

\* str.strip()
Strip(s) == RStrip(LStrip(s))

\* str.startswith(p)
StartsWith(s, p) == Len(s) >= Len(p) /\ SubSeq(s, 1, Len(p)) = p

\* sep in s, for a one-character sep
Contains(s, sep) == \E i \in 1..Len(s) : s[i] = sep

RECURSIVE SplitOn(_, _)
\* str.split(sep) for a one-character sep: always at least one part.
SplitOn(s, sep) ==
    IF ~Contains(s, sep) THEN <<s>>
    ELSE LET i == CHOOSE k \in 1..Len(s) :
                      s[k] = sep /\ \A j \in 1..(k - 1) : s[j] # sep
         IN  <<SubSeq(s, 1, i - 1)>> \o SplitOn(SubSeq(s, i + 1, Len(s)), sep)

RECURSIVE SplitWS(_)
\* str.split() with no argument: the maximal runs of non-whitespace.
SplitWS(s) ==
    LET t == LStrip(s)
    IN  IF t = <<>> THEN <<>>
        ELSE LET ends == {k \in 1..Len(t) : t[k] \in Whitespace}
                 n == IF ends = {} THEN Len(t)
                      ELSE (CHOOSE k \in ends : \A j \in ends : k <= j) - 1
             IN  <<SubSeq(t, 1, n)>> \o SplitWS(SubSeq(t, n + 1, Len(t)))

\* str.isdigit() on one character (ASCII digits of the input alphabet).
IsDigit(c) == c \in 48..57

\* Value of a digit character in bases up to 36, -1 for any other character.
DigitVal(c) == IF c \in 48..57 THEN c - 48
               ELSE IF c \in 97..122 THEN c - 87
               ELSE IF c \in 65..90 THEN c - 55
               ELSE 0 - 1

RECURSIVE DigitsValue(_, _, _)
DigitsValue(s, base, acc) ==
    IF s = <<>> THEN acc
    ELSE IF Head(s) = 95 THEN DigitsValue(Tail(s), base, acc)
    ELSE DigitsValue(Tail(s), base, acc * base + DigitVal(Head(s)))

\* Digits with single underscores between them, each digit below the base.
WellFormedDigits(d, base) ==
    /\ d # <<>>
    /\ d[1] # 95 /\ d[Len(d)] # 95
    /\ \A k \in 1..Len(d) :
          \/ d[k] = 95 /\ k < Len(d) /\ d[k + 1] # 95
          \/ d[k] # 95 /\ DigitVal(d[k]) >= 0 /\ DigitVal(d[k]) < base

IntOfDigits(neg, d, base) ==
    IF WellFormedDigits(d, base)
    THEN [ok |-> TRUE,
          val |-> IF neg THEN 0 - DigitsValue(d, base, 0)
                  ELSE DigitsValue(d, base, 0)]
    ELSE [ok |-> FALSE, val |-> 0]

\* Drops a 0x / 0X prefix in base 16, and one underscore after it.
AfterPrefix(u, base) ==
    IF base = 16 /\ Len(u) >= 2 /\ u[1] = 48 /\ u[2] \in {88, 120}
    THEN IF Len(u) >= 3 /\ u[3] = 95
         THEN SubSeq(u, 4, Len(u)) ELSE SubSeq(u, 3, Len(u))
    ELSE u

IntOfStripped(t, base) ==
    IF t # <<>> /\ t[1] \in {43, 45}
    THEN IntOfDigits(t[1] = 45, AfterPrefix(Tail(t), base), base)
    ELSE IntOfDigits(FALSE, AfterPrefix(t, base), base)

\* int(s, base): [ok |-> FALSE] stands for ValueError.  Surrounding
\* whitespace, one sign, a 0x prefix in base 16 and single underscores
\* between digits are accepted, as by CPython.
PyInt(s, base) == IntOfStripped(Strip(s), base)

\* chr(i) raises ValueError outside range(0x110000).
ChrOk(i) == 0 <= i /\ i <= 1114111

(***************************************************************************)
(* Input directory and program state                                       *)
(***************************************************************************)

kTotalStrokes == S(<<"k","T","o","t","a","l","S","t","r","o","k","e","s">>)
kSimplifiedVariant ==
    S(<<"k","S","i","m","p","l","i","f","i","e","d","V","a","r","i","a","n","t">>)
kTraditionalVariant ==
    S(<<"k","T","r","a","d","i","t","i","o","n","a","l","V","a","r","i","a","n","t">>)
kDefinition == S(<<"k","D","e","f","i","n","i","t","i","o","n">>)
kMandarin == S(<<"k","M","a","n","d","a","r","i","n">>)
kHanyuPinyin == S(<<"k","H","a","n","y","u","P","i","n","y","i","n">>)

FileNames == {"Unihan_DictionaryIndices.txt", "Unihan_DictionaryLikeData.txt",
              "Unihan_IRGSources.txt", "Unihan_NumericValues.txt",
              "Unihan_Variants.txt", "Unihan_Readings.txt",
              "Unihan_OtherMappings.txt"}

VARIABLES
    files,             \* the extracted Unihan_data directory: name -> [exists, lines]
    pc,                \* position of the running script
    idx,               \* index of the (file, field) pair a merge loop is at
    stroke_data,       \* char -> raw kTotalStrokes value
    simplified_data,   \* char -> raw kSimplifiedVariant value
    traditional_data,  \* char -> raw kTraditionalVariant value
    definition_data,   \* char -> raw kDefinition value
    pinyin_data,       \* char -> raw pinyin value
    all_chars,         \* union of the keys of the mappings
    todo,              \* characters the per-character loop has not visited yet
    processed_data,    \* rows built by setup_database, not inserted yet
    characters,        \* the SQLite table `characters`
    simplified_chars,  \* result of get_characters_from_db
    traditional_chars, \* result of get_traditional_characters_from_db
    char_dict          \* generate_dict.py: char -> [pinyin, meaning]

vars == <<files, pc, idx, stroke_data, simplified_data, traditional_data,
          definition_data, pinyin_data, all_chars, todo, processed_data,
          characters, simplified_chars, traditional_chars, char_dict>>

EmptyDict == [c \in {} |-> <<>>]

\* dict.update(t): the keys of t take t's value, whatever d held for them.
Update(d, t) == [c \in (DOMAIN d) \cup (DOMAIN t) |->
                    IF c \in DOMAIN t THEN t[c] ELSE d[c]]

\* dict.get(c, '')
Get(d, c) == IF c \in DOMAIN d THEN d[c] ELSE <<>>

(***************************************************************************)
(* parse_unihan_file                                                       *)
(***************************************************************************)

RECURSIVE ParseLines(_, _, _)
\* The `for line in f` loop, the same in both scripts.  raised = TRUE is the
\* ValueError of int(..., 16) or chr(...), which the loop does not catch.
ParseLines(lines, field_name, data) ==
    IF lines = <<>> THEN [raised |-> FALSE, data |-> data]
    ELSE
      LET line == Strip(Head(lines))
          parts == SplitOn(line, 9)
      IN  IF StartsWith(line, <<35>>) \/ line = <<>>
          THEN ParseLines(Tail(lines), field_name, data)
          ELSE IF Len(parts) >= 3 /\ parts[2] = field_name
                  /\ StartsWith(parts[1], <<85, 43>>)
          THEN LET code_point == PyInt(SubSeq(parts[1], 3, Len(parts[1])), 16)
               IN  IF ~code_point.ok \/ ~ChrOk(code_point.val)
                   THEN [raised |-> TRUE, data |-> data]
                   ELSE ParseLines(Tail(lines), field_name,
                            Update(data, [c \in {code_point.val} |-> parts[3]]))
          ELSE ParseLines(Tail(lines), field_name, data)

\* generate.py: a file that does not exist gives the empty mapping.
parse_unihan_file(file_path, field_name) ==
    IF ~files[file_path].exists
    THEN [raised |-> FALSE, data |-> EmptyDict]
    ELSE ParseLines(files[file_path].lines, field_name, EmptyDict)

\* generate_dict.py: FileNotFoundError is caught, nothing else is.
dict_parse_unihan_file(filename, field) ==
    IF ~files[filename].exists
    THEN [raised |-> FALSE, data |-> EmptyDict]
    ELSE ParseLines(files[filename].lines, field, EmptyDict)

(***************************************************************************)
(* generate.py                                                             *)
(***************************************************************************)

stroke_files == <<
    <<"Unihan_DictionaryIndices.txt", kTotalStrokes>>,
    <<"Unihan_DictionaryLikeData.txt", kTotalStrokes>>,
    <<"Unihan_IRGSources.txt", kTotalStrokes>>,
    <<"Unihan_NumericValues.txt", kTotalStrokes>> >>

pinyin_sources == <<
    <<"Unihan_Readings.txt", kMandarin>>,
    <<"Unihan_Readings.txt", kHanyuPinyin>> >>

\* Mutant of is_simplified_chinese: the Extension A range is forgotten.
is_simplified_chinese_unified_only(char) == 19968 <= char /\ char <= 40959

\* CJK Unified Ideographs 4E00-9FFF, CJK Extension A 3400-4DBF.
is_simplified_chinese(char) ==
    (19968 <= char /\ char <= 40959) \/ (13312 <= char /\ char <= 19903)

\* Mutant of ParseStrokeCount: the last of several counts is taken.
ParseStrokeCountLastToken(char) ==
    IF char \in DOMAIN stroke_data /\ stroke_data[char] # <<>>
    THEN LET stripped == Strip(stroke_data[char])
             stroke_str == IF Contains(stripped, 32)
                           THEN SplitWS(stripped)[Len(SplitWS(stripped))]
                           ELSE stripped
             n == PyInt(stroke_str, 10)
         IN  IF n.ok THEN <<n.val>> ELSE <<>>
    ELSE <<>>

\* The try block of setup_database: None (<<>>) when the value is missing,
\* empty, or int() raises ValueError.
ParseStrokeCount(char) ==
    IF char \in DOMAIN stroke_data /\ stroke_data[char] # <<>>
    THEN LET stripped == Strip(stroke_data[char])
             stroke_str == IF Contains(stripped, 32)
                           THEN SplitWS(stripped)[1] ELSE stripped
             n == PyInt(stroke_str, 10)
         IN  IF n.ok THEN <<n.val>> ELSE <<>>
    ELSE <<>>

\* Mutant of CharType: the traditional variant is looked at first.
CharTypeTraditionalFirst(char) ==
    LET has_simplified_variant ==
            char \in DOMAIN simplified_data /\ simplified_data[char] # <<char>>
        has_traditional_variant ==
            char \in DOMAIN traditional_data /\ traditional_data[char] # <<char>>
    IN  IF has_traditional_variant THEN 1
        ELSE IF has_simplified_variant THEN 0
        ELSE 2

\* 0 = Traditional-only, 1 = Simplified-only, 2 = Common.  The variant value
\* is the raw third column; char is the one-character string.
CharType(char) ==
    LET has_simplified_variant ==
            char \in DOMAIN simplified_data /\ simplified_data[char] # <<char>>
        has_traditional_variant ==
            char \in DOMAIN traditional_data /\ traditional_data[char] # <<char>>
    IN  IF has_simplified_variant THEN 0
        ELSE IF has_traditional_variant THEN 1
        ELSE 2

\* pinyin.split()[0] raises IndexError on a value that is all whitespace.
PinyinRaises(char) ==
    Get(pinyin_data, char) # <<>> /\ SplitWS(Get(pinyin_data, char)) = <<>>

RowPinyin(char) ==
    IF Get(pinyin_data, char) # <<>>
    THEN SplitWS(Get(pinyin_data, char))[1] ELSE <<>>

Row(char) ==
    [char |-> char,
     stroke_count |-> ParseStrokeCount(char),
     is_simplified |-> CharType(char),
     traditional_variant |-> Get(traditional_data, char),
     simplified_variant |-> Get(simplified_data, char),
     definition |-> Get(definition_data, char),
     pinyin |-> RowPinyin(char)]

\* DROP TABLE IF EXISTS characters; CREATE TABLE characters (...)
CreateTable ==
    /\ pc = "create"
    /\ characters' = {}
    /\ pc' = "stroke"
    /\ UNCHANGED <<files, idx, stroke_data, simplified_data, traditional_data,
                   definition_data, pinyin_data, all_chars, todo,
                   processed_data, simplified_chars, traditional_chars,
                   char_dict>>

\* One turn of `for filename, field in stroke_files`.
MergeStroke ==
    /\ pc = "stroke"
    /\ LET filename == stroke_files[idx][1]
           field == stroke_files[idx][2]
           temp_data == parse_unihan_file(filename, field)
       IN  IF files[filename].exists /\ temp_data.raised
           THEN /\ pc' = "error"
                /\ UNCHANGED <<idx, stroke_data>>
           ELSE /\ stroke_data' = IF files[filename].exists
                                  THEN Update(stroke_data, temp_data.data)
                                  ELSE stroke_data
                /\ IF idx < Len(stroke_files)
                   THEN idx' = idx + 1 /\ pc' = "stroke"
                   ELSE idx' = 1 /\ pc' = "simplified"
    /\ UNCHANGED <<files, simplified_data, traditional_data, definition_data,
                   pinyin_data, all_chars, todo, processed_data, characters,
                   simplified_chars, traditional_chars, char_dict>>

ParseSimplified ==
    /\ pc = "simplified"
    /\ LET r == parse_unihan_file("Unihan_Variants.txt", kSimplifiedVariant)
       IN  IF r.raised
           THEN pc' = "error" /\ UNCHANGED simplified_data
           ELSE pc' = "traditional" /\ simplified_data' = r.data
    /\ UNCHANGED <<files, idx, stroke_data, traditional_data, definition_data,
                   pinyin_data, all_chars, todo, processed_data, characters,
                   simplified_chars, traditional_chars, char_dict>>

ParseTraditional ==
    /\ pc = "traditional"
    /\ LET r == parse_unihan_file("Unihan_Variants.txt", kTraditionalVariant)
       IN  IF r.raised
           THEN pc' = "error" /\ UNCHANGED traditional_data
           ELSE pc' = "definition" /\ traditional_data' = r.data
    /\ UNCHANGED <<files, idx, stroke_data, simplified_data, definition_data,
                   pinyin_data, all_chars, todo, processed_data, characters,
                   simplified_chars, traditional_chars, char_dict>>

ParseDefinition ==
    /\ pc = "definition"
    /\ LET r == parse_unihan_file("Unihan_Readings.txt", kDefinition)
       IN  IF r.raised
           THEN pc' = "error" /\ UNCHANGED definition_data
           ELSE pc' = "pinyin" /\ definition_data' = r.data
    /\ UNCHANGED <<files, idx, stroke_data, simplified_data, traditional_data,
                   pinyin_data, all_chars, todo, processed_data, characters,
                   simplified_chars, traditional_chars, char_dict>>

\* One turn of `for filename, field in pinyin_sources`.
MergePinyin ==
    /\ pc = "pinyin"
    /\ LET temp_data == parse_unihan_file(pinyin_sources[idx][1],
                                          pinyin_sources[idx][2])
       IN  IF temp_data.raised
           THEN /\ pc' = "error"
                /\ UNCHANGED <<idx, pinyin_data>>
           ELSE /\ pinyin_data' = Update(pinyin_data, temp_data.data)
                /\ IF idx < Len(pinyin_sources)
                   THEN idx' = idx + 1 /\ pc' = "pinyin"
                   ELSE idx' = 1 /\ pc' = "combine"
    /\ UNCHANGED <<files, stroke_data, simplified_data, traditional_data,
                   definition_data, all_chars, todo, processed_data,
                   characters, simplified_chars, traditional_chars, char_dict>>

\* all_chars = union of the keys of the five mappings
Combine ==
    /\ pc = "combine"
    /\ all_chars' = (DOMAIN stroke_data) \cup (DOMAIN simplified_data)
                      \cup (DOMAIN traditional_data)
                      \cup (DOMAIN definition_data) \cup (DOMAIN pinyin_data)
    /\ todo' = all_chars'
    /\ processed_data' = {}
    /\ pc' = "process"
    /\ UNCHANGED <<files, idx, stroke_data, simplified_data, traditional_data,
                   definition_data, pinyin_data, characters, simplified_chars,
                   traditional_chars, char_dict>>

\* One turn of `for char in all_chars` (a set: any order).
ProcessChar ==
    /\ pc = "process"
    /\ \E char \in todo :
          /\ todo' = todo \ {char}
          /\ IF ~is_simplified_chinese(char)
             THEN UNCHANGED <<pc, processed_data>>
             ELSE IF PinyinRaises(char)
             THEN pc' = "error" /\ UNCHANGED processed_data
             ELSE /\ processed_data' = processed_data \cup {Row(char)}
                  /\ UNCHANGED pc
    /\ UNCHANGED <<files, idx, stroke_data, simplified_data, traditional_data,
                   definition_data, pinyin_data, all_chars, characters,
                   simplified_chars, traditional_chars, char_dict>>

\* cursor.executemany(INSERT ...); conn.commit().  Every stroke count the
\* modelled values can spell lies inside SQLite's 64-bit INTEGER range.
Insert ==
    /\ pc = "process" /\ todo = {}
    /\ characters' = characters \cup processed_data
    /\ pc' = "get_simplified"
    /\ UNCHANGED <<files, idx, stroke_data, simplified_data, traditional_data,
                   definition_data, pinyin_data, all_chars, todo,
                   processed_data, simplified_chars, traditional_chars,
                   char_dict>>

\* UTF-8 encoding of a code point: the bytes SQLite stores for a TEXT value.
Utf8(c) ==
    IF c < 128 THEN <<c>>
    ELSE IF c < 2048 THEN <<192 + (c \div 64), 128 + (c % 64)>>
    ELSE IF c < 65536
    THEN <<224 + (c \div 4096), 128 + ((c \div 64) % 64), 128 + (c % 64)>>
    ELSE <<240 + (c \div 262144), 128 + ((c \div 4096) % 64),
           128 + ((c \div 64) % 64), 128 + (c % 64)>>

\* BINARY collation: memcmp over the common prefix, then the shorter first.
BinaryLess(a, b) ==
    \/ \E k \in 1..Len(a) :
          /\ k <= Len(b)
          /\ a[k] < b[k]
          /\ \A j \in 1..(k - 1) : a[j] = b[j]
    \/ Len(a) < Len(b) /\ SubSeq(b, 1, Len(a)) = a

\* Mutant of RowBefore: ORDER BY char ASC alone.
RowBeforeByChar(r, o) == BinaryLess(Utf8(r.char), Utf8(o.char))

\* ORDER BY stroke_count ASC, char ASC
RowBefore(r, o) ==
    \/ r.stroke_count[1] < o.stroke_count[1]
    \/ /\ r.stroke_count[1] = o.stroke_count[1]
       /\ BinaryLess(Utf8(r.char), Utf8(o.char))

RECURSIVE OrderBy(_)
OrderBy(rows) ==
    IF rows = {} THEN <<>>
    ELSE LET first == CHOOSE r \in rows : \A o \in rows \ {r} : RowBefore(r, o)
         IN  <<first>> \o OrderBy(rows \ {first})

\* SELECT char FROM characters WHERE is_simplified IN types
\*   AND stroke_count IS NOT NULL ORDER BY stroke_count ASC, char ASC
SelectChars(types) ==
    LET rows == OrderBy({r \in characters :
                           r.is_simplified \in types /\ r.stroke_count # <<>>})
    IN  [k \in 1..Len(rows) |-> rows[k].char]

get_characters_from_db ==
    /\ pc = "get_simplified"
    /\ simplified_chars' = SelectChars({1, 2})
    /\ pc' = "get_traditional"
    /\ UNCHANGED <<files, idx, stroke_data, simplified_data, traditional_data,
                   definition_data, pinyin_data, all_chars, todo,
                   processed_data, characters, traditional_chars, char_dict>>

\* Followed by the two json.dump calls, which end main.  debug_database,
\* which main runs before the two queries, only reads and prints.
get_traditional_characters_from_db ==
    /\ pc = "get_traditional"
    /\ traditional_chars' = SelectChars({0, 2})
    /\ pc' = "done"
    /\ UNCHANGED <<files, idx, stroke_data, simplified_data, traditional_data,
                   definition_data, pinyin_data, all_chars, todo,
                   processed_data, characters, simplified_chars, char_dict>>

Next ==
    \/ CreateTable
    \/ MergeStroke
    \/ ParseSimplified
    \/ ParseTraditional
    \/ ParseDefinition
    \/ MergePinyin
    \/ Combine
    \/ ProcessChar
    \/ Insert
    \/ get_characters_from_db
    \/ get_traditional_characters_from_db

(***************************************************************************)
(* generate_dict.py                                                        *)
(***************************************************************************)

definition_sources == <<
    <<"Unihan_Readings.txt", kDefinition>>,
    <<"Unihan_DictionaryLikeData.txt", kDefinition>>,
    <<"Unihan_OtherMappings.txt", kDefinition>> >>

\* ''.join(c for c in s if not c.isdigit() and c != ':')
DropDigitsAndColons(s) == SelectSeq(s, LAMBDA c : ~IsDigit(c) /\ c # 58)

\* raw_pinyin.split(',')[0].split()[0] raises IndexError when nothing but
\* whitespace precedes the first comma.
CleanPinyinRaises(raw_pinyin) ==
    raw_pinyin # <<>> /\ SplitWS(SplitOn(raw_pinyin, 44)[1]) = <<>>

CleanPinyin(raw_pinyin) ==
    IF raw_pinyin = <<>> THEN <<>>
    ELSE Strip(DropDigitsAndColons(SplitWS(SplitOn(raw_pinyin, 44)[1])[1]))

\* Mutant of DictAllChars: only the characters that have a reading.
DictAllCharsPinyinOnly == DOMAIN pinyin_data

\* all_chars = set(pinyin_data.keys()) | set(definition_data.keys())
DictAllChars == (DOMAIN pinyin_data) \cup (DOMAIN definition_data)

\* One turn of `for filename, field in pinyin_sources`.  A ValueError from
\* the parser is not caught anywhere: the script dies with a traceback.
DictMergePinyin ==
    /\ pc = "dict_pinyin"
    /\ LET temp_data == dict_parse_unihan_file(pinyin_sources[idx][1],
                                               pinyin_sources[idx][2])
       IN  IF temp_data.raised
           THEN /\ pc' = "error"
                /\ UNCHANGED <<idx, pinyin_data>>
           ELSE /\ pinyin_data' = Update(pinyin_data, temp_data.data)
                /\ IF idx < Len(pinyin_sources)
                   THEN idx' = idx + 1 /\ pc' = "dict_pinyin"
                   ELSE idx' = 1 /\ pc' = "dict_definition"
    /\ UNCHANGED <<files, stroke_data, simplified_data, traditional_data,
                   definition_data, all_chars, todo, processed_data,
                   characters, simplified_chars, traditional_chars, char_dict>>

\* One turn of `for filename, field in definition_sources`.
DictMergeDefinition ==
    /\ pc = "dict_definition"
    /\ LET filename == definition_sources[idx][1]
           temp_data == dict_parse_unihan_file(filename,
                                               definition_sources[idx][2])
       IN  IF files[filename].exists /\ temp_data.raised
           THEN /\ pc' = "error"
                /\ UNCHANGED <<idx, definition_data>>
           ELSE /\ definition_data' = IF files[filename].exists
                                      THEN Update(definition_data, temp_data.data)
                                      ELSE definition_data
                /\ IF idx < Len(definition_sources)
                   THEN idx' = idx + 1 /\ pc' = "dict_definition"
                   ELSE idx' = 1 /\ pc' = "dict_combine"
    /\ UNCHANGED <<files, stroke_data, simplified_data, traditional_data,
                   pinyin_data, all_chars, todo, processed_data, characters,
                   simplified_chars, traditional_chars, char_dict>>

DictCombine ==
    /\ pc = "dict_combine"
    /\ all_chars' = DictAllChars
    /\ todo' = all_chars'
    /\ char_dict' = EmptyDict
    /\ pc' = "dict_build"
    /\ UNCHANGED <<files, idx, stroke_data, simplified_data, traditional_data,
                   definition_data, pinyin_data, processed_data, characters,
                   simplified_chars, traditional_chars>>

\* One turn of `for char in all_chars` (a set: any order).
DictBuildEntry ==
    /\ pc = "dict_build"
    /\ \E char \in todo :
          /\ todo' = todo \ {char}
          /\ IF CleanPinyinRaises(Get(pinyin_data, char))
             THEN pc' = "error" /\ UNCHANGED char_dict
             ELSE /\ char_dict' = Update(char_dict,
                        [c \in {char} |->
                            [pinyin |-> CleanPinyin(Get(pinyin_data, char)),
                             meaning |-> Get(definition_data, char)]])
                  /\ UNCHANGED pc
    /\ UNCHANGED <<files, idx, stroke_data, simplified_data, traditional_data,
                   definition_data, pinyin_data, all_chars, processed_data,
                   characters, simplified_chars, traditional_chars>>

\* json.dump(char_dict, f, ...)
DictSave ==
    /\ pc = "dict_build" /\ todo = {}
    /\ pc' = "dict_done"
    /\ UNCHANGED <<files, idx, stroke_data, simplified_data, traditional_data,
                   definition_data, pinyin_data, all_chars, todo,
                   processed_data, characters, simplified_chars,
                   traditional_chars, char_dict>>

DictNext ==
    \/ DictMergePinyin
    \/ DictMergeDefinition
    \/ DictCombine
    \/ DictBuildEntry
    \/ DictSave

(***************************************************************************)
(* Inputs                                                                  *)
(***************************************************************************)

\* One record of a Unihan file: <codepoint> TAB <field> TAB <value>
Line(codepoint, field, value) == codepoint \o <<9>> \o field \o <<9>> \o value

At(file, line) == [file |-> file, line |-> line]

U4E00 == S(<<"U","+","4","E","0","0">>)
U4E8C == S(<<"U","+","4","E","8","C">>)
U3400 == S(<<"U","+","3","4","0","0">>)
U4DC0 == S(<<"U","+","4","D","C","0">>)
U1F600 == S(<<"U","+","1","F","6","0","0">>)

\* Lines about stroke counts and the sources they are merged from.
StrokePool == {
    At("Unihan_DictionaryIndices.txt", Line(U4E00, kTotalStrokes, S(<<"5">>))),
    At("Unihan_DictionaryLikeData.txt", Line(U4E00, kTotalStrokes, S(<<"7">>))),
    At("Unihan_IRGSources.txt", Line(U4E00, kTotalStrokes, S(<<"5"," ","7">>))),
    At("Unihan_NumericValues.txt", Line(U4E00, kTotalStrokes, S(<<"a","b","c">>))),
    At("Unihan_DictionaryIndices.txt", Line(U4E8C, kTotalStrokes, S(<<"0">>))),
    At("Unihan_DictionaryLikeData.txt", Line(U4E8C, kTotalStrokes, S(<<"-","3">>))),
    At("Unihan_IRGSources.txt", Line(U4E8C, kTotalStrokes, S(<<"5","\f","7">>))),
    At("Unihan_Readings.txt", Line(U4E00, kMandarin, S(<<"h","a","o","3">>))),
    At("Unihan_Readings.txt",
       Line(U4E00, kHanyuPinyin, S(<<"z","h","o","n","g","1",",","z","h","o","n","g","4">>))),
    At("Unihan_Readings.txt", Line(U4E8C, kMandarin, S(<<" ", "\t", "x">>))),
    At("Unihan_DictionaryIndices.txt",
       Line(S(<<"U","+","Z","Z">>), kTotalStrokes, S(<<"5">>))),
    At("Unihan_DictionaryIndices.txt",
       Line(S(<<"4","E","0","0">>), kTotalStrokes, S(<<"5">>)))
}

SeqsUpTo(pool, n) == UNION {[1..k -> pool] : k \in 0..n}

\* The lines of src written to `file`, in order.
LinesOf(src, file) ==
    LET sel == SelectSeq(src, LAMBDA e : e.file = file)
    IN  [k \in 1..Len(sel) |-> sel[k].line]

\* The directory holding the lines of src: a file exists when it has a line.
Directory(src) ==
    [f \in FileNames |->
        [exists |-> \E k \in 1..Len(src) : src[k].file = f,
         lines |-> LinesOf(src, f)]]

\* A row a previous run left in chinese_chars.db.
StaleRow == [char |-> 19977, stroke_count |-> <<3>>, is_simplified |-> 2,
             traditional_variant |-> <<>>, simplified_variant |-> <<>>,
             definition |-> <<>>, pinyin |-> <<>>]

\* Start of main() of generate.py over a directory drawn from pool.
InitGenerate(pool) ==
    /\ \E src \in SeqsUpTo(pool, MaxLines) : files = Directory(src)
    /\ pc = "create"
    /\ idx = 1
    /\ stroke_data = EmptyDict
    /\ simplified_data = EmptyDict
    /\ traditional_data = EmptyDict
    /\ definition_data = EmptyDict
    /\ pinyin_data = EmptyDict
    /\ all_chars = {}
    /\ todo = {}
    /\ processed_data = {}
    /\ characters \in {{}, {StaleRow}}
    /\ simplified_chars = <<>>
    /\ traditional_chars = <<>>
    /\ char_dict = EmptyDict

Init == InitGenerate(StrokePool)

Spec == Init /\ [][Next]_vars

\* Lines about variants, scope and list order.
ListPool == {
    At("Unihan_DictionaryIndices.txt", Line(U4E00, kTotalStrokes, S(<<"2">>))),
    At("Unihan_DictionaryIndices.txt", Line(U4E8C, kTotalStrokes, S(<<"1">>))),
    At("Unihan_DictionaryLikeData.txt", Line(U4E8C, kTotalStrokes, S(<<"2">>))),
    At("Unihan_IRGSources.txt", Line(U3400, kTotalStrokes, S(<<"1">>))),
    At("Unihan_IRGSources.txt", Line(U4DC0, kTotalStrokes, S(<<"1">>))),
    At("Unihan_NumericValues.txt", Line(U1F600, kTotalStrokes, S(<<"1">>))),
    At("Unihan_Variants.txt", Line(U4E00, kSimplifiedVariant, U4E8C)),
    At("Unihan_Variants.txt", Line(U4E00, kTraditionalVariant, U4E8C)),
    At("Unihan_Variants.txt", Line(U4E8C, kSimplifiedVariant, U4E8C)),
    At("Unihan_Variants.txt", Line(U4E8C, kTraditionalVariant, U4E8C)),
    At("Unihan_Variants.txt", Line(U4E8C, kTraditionalVariant, U4E00)),
    At("Unihan_Variants.txt", Line(U3400, kTraditionalVariant, <<13312>>)),
    At("Unihan_Readings.txt", Line(U4E8C, kDefinition, S(<<"t","w","o">>))),
    At("Unihan_Variants.txt",
       Line(S(<<"U","+","Z","Z">>), kSimplifiedVariant, U4E00))
}

\* Lines about readings and definitions.
ReadingPool == {
    At("Unihan_Readings.txt", Line(U4E00, kMandarin, S(<<"h","a","o","3">>))),
    At("Unihan_Readings.txt",
       Line(U4E00, kHanyuPinyin, S(<<"z","h","o","n","g","1",",","z","h","o","n","g","4">>))),
    At("Unihan_Readings.txt",
       Line(U4E8C, kMandarin, S(<<"y","i","1"," ","e","r",":","4">>))),
    At("Unihan_Readings.txt", Line(U4E8C, kHanyuPinyin, S(<<",","e","r","4">>))),
    At("Unihan_Readings.txt", Line(U1F600, kMandarin, S(<<" ", "\t", "x">>))),
    At("Unihan_Readings.txt", Line(U1F600, kMandarin, S(<<"3","\t","x">>))),
    At("Unihan_Readings.txt", Line(U4E00, kDefinition, S(<<"o","n","e">>))),
    At("Unihan_DictionaryLikeData.txt", Line(U4E00, kDefinition, S(<<"1">>))),
    At("Unihan_OtherMappings.txt", Line(U4DC0, kDefinition, S(<<"s","i","x">>))),
    At("Unihan_OtherMappings.txt", S(<<"#"," ","x">>)),
    At("Unihan_Readings.txt", Line(S(<<"U","+">>), kDefinition, S(<<"x">>)))
}

InitLists == InitGenerate(ListPool)

SpecLists == InitLists /\ [][Next]_vars

\* Start of generate_dict.py over a directory drawn from ReadingPool.
InitDict ==
    /\ \E src \in SeqsUpTo(ReadingPool, MaxLines) : files = Directory(src)
    /\ pc = "dict_pinyin"
    /\ idx = 1
    /\ stroke_data = EmptyDict
    /\ simplified_data = EmptyDict
    /\ traditional_data = EmptyDict
    /\ definition_data = EmptyDict
    /\ pinyin_data = EmptyDict
    /\ all_chars = {}
    /\ todo = {}
    /\ processed_data = {}
    /\ characters = {}
    /\ simplified_chars = <<>>
    /\ traditional_chars = <<>>
    /\ char_dict = EmptyDict

SpecDict == InitDict /\ [][DictNext]_vars

(***************************************************************************)
(* Properties                                                              *)
(***************************************************************************)

ListSet(list) == {list[k] : k \in 1..Len(list)}

AggregatedKeys ==
    (DOMAIN stroke_data) \cup (DOMAIN simplified_data)
      \cup (DOMAIN traditional_data) \cup (DOMAIN definition_data)
      \cup (DOMAIN pinyin_data)

\* C1: first-writer-wins.  Once a merge loop has given a character a stroke,
\* pinyin or definition value, no later (source, field) pair replaces it.
C1_FirstWriterWins ==
    [][/\ \A c \in DOMAIN stroke_data :
             c \in DOMAIN stroke_data' /\ stroke_data'[c] = stroke_data[c]
       /\ \A c \in DOMAIN pinyin_data :
             c \in DOMAIN pinyin_data' /\ pinyin_data'[c] = pinyin_data[c]
       /\ \A c \in DOMAIN definition_data :
             c \in DOMAIN definition_data'
               /\ definition_data'[c] = definition_data[c]]_vars

\* The two ranges as the specification gives them: 0x4E00..0x9FFF and
\* 0x3400..0x4DBF.
InScope == (19968..40959) \cup (13312..19903)

\* C2: after a run the simplified list holds exactly the characters of the
\* aggregated mappings that are in scope, classified SimplifiedOnly (1) or
\* Common (2), with a stroke count; the traditional list likewise with
\* TraditionalOnly (0) or Common (2).
C2_ListContents ==
    pc = "done" =>
      /\ ListSet(simplified_chars) =
            {c \in AggregatedKeys : /\ c \in InScope
                                    /\ CharType(c) \in {1, 2}
                                    /\ ParseStrokeCount(c) # <<>>}
      /\ ListSet(traditional_chars) =
            {c \in AggregatedKeys : /\ c \in InScope
                                    /\ CharType(c) \in {0, 2}
                                    /\ ParseStrokeCount(c) # <<>>}

\* C2 witness: a finished run with a listed character, an emoji that has a
\* stroke value and a character that has a definition but no stroke value.
C2_Witness ==
    /\ pc = "done"
    /\ simplified_chars # <<>>
    /\ 128512 \in DOMAIN stroke_data
    /\ 20108 \in (DOMAIN definition_data) \ (DOMAIN stroke_data)
    /\ 20108 \notin ListSet(simplified_chars) \cup ListSet(traditional_chars)

StrokeOf(c) == (CHOOSE r \in characters : r.char = c).stroke_count[1]

StrictlySorted(list) ==
    \A k \in 1..(Len(list) - 1) :
        \/ StrokeOf(list[k]) < StrokeOf(list[k + 1])
        \/ /\ StrokeOf(list[k]) = StrokeOf(list[k + 1])
           /\ list[k] < list[k + 1]

\* C3: both lists are strictly increasing under (stroke count, code point),
\* so no character occurs twice.
C3_StrictlySorted ==
    StrictlySorted(simplified_chars) /\ StrictlySorted(traditional_chars)

\* C3 witness: a finished run whose traditional list has a tie on the stroke
\* count and a pair ordered by stroke count against the code point order.
C3_Witness ==
    /\ pc = "done"
    /\ \E k \in 1..(Len(traditional_chars) - 1) :
          StrokeOf(traditional_chars[k]) = StrokeOf(traditional_chars[k + 1])
    /\ \E k \in 1..(Len(traditional_chars) - 1) :
          traditional_chars[k] > traditional_chars[k + 1]

\* C4: every record's class follows the first-match order: TraditionalOnly
\* (0) when the simplified-variant value is present and is not the character,
\* else SimplifiedOnly (1) when the traditional-variant value is present and
\* is not the character, else Common (2).
C4_FirstMatchOrder ==
    \A r \in processed_data :
        LET c == r.char
            s == c \in DOMAIN simplified_data /\ simplified_data[c] # <<c>>
            d == c \in DOMAIN traditional_data /\ traditional_data[c] # <<c>>
        IN  /\ s => r.is_simplified = 0
            /\ (~s /\ d) => r.is_simplified = 1
            /\ (~s /\ ~d) => r.is_simplified = 2

\* C4 witness: a record whose two variant values are both present and both
\* differ from the character, classified TraditionalOnly.
C4_Witness ==
    \E r \in processed_data :
        /\ r.simplified_variant # <<>> /\ r.simplified_variant # <<r.char>>
        /\ r.traditional_variant # <<>> /\ r.traditional_variant # <<r.char>>
        /\ r.is_simplified = 0

\* The value is U+<hex> and the hex digits are the code point of c.
NamesCodePoint(value, c) ==
    /\ StartsWith(value, <<85, 43>>)
    /\ PyInt(SubSeq(value, 3, Len(value)), 16) = [ok |-> TRUE, val |-> c]

\* C5: a character whose variant values all name its own code point is
\* Common, and is in both lists when it has a stroke count.
C5_SelfReferenceIsCommon ==
    \A r \in processed_data :
        (/\ r.simplified_variant # <<>> \/ r.traditional_variant # <<>>
         /\ r.simplified_variant # <<>>
               => NamesCodePoint(r.simplified_variant, r.char)
         /\ r.traditional_variant # <<>>
               => NamesCodePoint(r.traditional_variant, r.char))
        => /\ r.is_simplified = 2
           /\ (pc = "done" /\ r.stroke_count # <<>>)
                 => /\ r.char \in ListSet(simplified_chars)
                    /\ r.char \in ListSet(traditional_chars)

\* C6: no input aborts the run.
C6_NoInputAborts == pc # "error"

\* C7: the dictionary's keys are exactly the keys of the pinyin and the
\* definition mappings, each entry with the fields pinyin and meaning.
C7_DictKeys ==
    pc = "dict_done" =>
      /\ DOMAIN char_dict = (DOMAIN pinyin_data) \cup (DOMAIN definition_data)
      /\ \A c \in DOMAIN char_dict :
            DOMAIN char_dict[c] = {"pinyin", "meaning"}

\* C7 witness: a saved dictionary with an entry for a character outside both
\* ranges that has a definition and no pinyin.
C7_Witness ==
    /\ pc = "dict_done"
    /\ 19904 \in DOMAIN char_dict
    /\ char_dict[19904].pinyin = <<>>
    /\ char_dict[19904].meaning # <<>>

\* Pinyin normalization as stated: cut before the first comma, keep the first
\* whitespace-delimited token, delete digits and colons, trim.
NormalizedPinyin(raw) ==
    LET tokens == SplitWS(SplitOn(raw, 44)[1])
    IN  IF tokens = <<>> THEN <<>>
        ELSE Strip(SelectSeq(tokens[1], LAMBDA c : c \notin (48..57) \cup {58}))

\* C8: the pinyin recorded for a character is the normalized raw value.
C8_RecordedPinyinNormalized ==
    /\ \A r \in processed_data :
          r.pinyin = NormalizedPinyin(Get(pinyin_data, r.char))
    /\ \A c \in DOMAIN char_dict :
          char_dict[c].pinyin = NormalizedPinyin(Get(pinyin_data, c))

\* Integer value of a token, None when it is no base-10 integer.
IntOrNone(token) ==
    IF PyInt(token, 10).ok THEN <<PyInt(token, 10).val>> ELSE <<>>

\* C9 as stated: the stroke count of a record is the integer value of the
\* first whitespace-delimited token of the stripped raw value, None when that
\* token is not numeric.
C9_FirstTokenStroke ==
    \A r \in processed_data :
        r.char \in DOMAIN stroke_data =>
          r.stroke_count =
             IF SplitWS(Strip(stroke_data[r.char])) = <<>> THEN <<>>
             ELSE IntOrNone(SplitWS(Strip(stroke_data[r.char]))[1])

\* The string the code hands to int(): the first token when the stripped value
\* holds a space character (U+0020), the whole stripped value otherwise.
StrokeToken(v) ==
    IF \E k \in 1..Len(Strip(v)) : Strip(v)[k] = 32
    THEN SplitWS(Strip(v))[1] ELSE Strip(v)

\* C9 amended: a turn of the per-character loop (a) aborts only on a blank
\* pinyin value, never on a stroke value, (b) keeps every record built so
\* far, and (c) leaves every record with the integer value of StrokeToken of
\* its raw stroke value, None when that is not an integer.
C9_StrokeNormalization ==
    [][pc = "process" =>
         /\ pc' = "error" => \E char \in todo : PinyinRaises(char)
         /\ processed_data \subseteq processed_data'
         /\ \A r \in processed_data' :
               r.char \in DOMAIN stroke_data =>
                 r.stroke_count = IntOrNone(StrokeToken(stroke_data[r.char]))]_vars

\* C9 witness: records built for a value of two space-separated counts (5),
\* and for a value whose counts are separated by a form feed (None).
C9_Witness ==
    /\ \E r \in processed_data :
          /\ Get(stroke_data, r.char) = S(<<"5"," ","7">>)
          /\ r.stroke_count = <<5>>
    /\ \E r \in processed_data :
          /\ Get(stroke_data, r.char) = S(<<"5","\f","7">>)
          /\ r.stroke_count = <<>>

\* C10: every stroke count of a record is None or at least 1.
C10_StrokePositive ==
    \A r \in processed_data \cup characters :
        r.stroke_count = <<>> \/ r.stroke_count[1] >= 1

====
